---------------------------- MODULE Spec2Model ----------------------------
(***************************************************************************)
(* Model of the NaPTAN stops pipeline of sheffield-rocks/public-data:      *)
(*   pipelines/buses/naptan-stops-sqlite.ts   (the builder)                *)
(*   pipelines/buses/validate-stops-sqlite.ts (the validator)              *)
(*                                                                         *)
(* Representation.                                                         *)
(*  - A JavaScript string is a sequence of one-character strings, so that  *)
(*    trim, startsWith and parseFloat are computed, not assumed.           *)
(*  - A JavaScript number is a record [k, v]: k = "fin" with v the value   *)
(*    in hundredths (53.38 is 5338), or k = "nan" / "inf" / "ninf".        *)
(*    parseFloat keeps two fractional digits; the strings of the model     *)
(*    carry at most two, and no exponent part.                             *)
(*  - undefined and null are the one-element sequences Undefined and Null, *)
(*    which no string of characters equals; where a number is expected     *)
(*    undefined is the record UndefinedNumber.                             *)
(*  - A raw CSV record (Record<string,string>) is a function from the      *)
(*    header names of the file to strings.                                 *)
(***************************************************************************)
EXTENDS Integers, Sequences, FiniteSets, TLC

Undefined == << "<undefined>" >>
Null == << "<null>" >>

\* ------------------------------------------------------------------------
\* Bounds of the model
\* ------------------------------------------------------------------------

\* Longest CSV stream a run reads.
MaxRows == 3

\* Rows per transaction.  The source sets 2000 (naptan-stops-sqlite.ts:22);
\* the model scales it down so that a run crosses batch boundaries.
BATCH_SIZE == 2

\* ------------------------------------------------------------------------
\* Program constants
\* ------------------------------------------------------------------------

\* validate-stops-sqlite.ts:5-8, in hundredths of a degree.
UK_LAT_MIN == 4900
UK_LAT_MAX == 6150
UK_LNG_MIN == -850
UK_LNG_MAX == 250

\* naptan-stops-sqlite.ts:21
DEFAULT_ATCO_PREFIX == <<"3", "7", "0">>

\* ------------------------------------------------------------------------
\* Strings and numbers
\* ------------------------------------------------------------------------

SetMin(S) == CHOOSE m \in S : \A n \in S : m <= n
SetMax(S) == CHOOSE m \in S : \A n \in S : m >= n

Digits == <<"0", "1", "2", "3", "4", "5", "6", "7", "8", "9">>
IsDigit(c) == \E i \in 1..10 : Digits[i] = c
DigitVal(c) == (CHOOSE i \in 1..10 : Digits[i] = c) - 1

IsWhite(c) == c \in {" ", "\t"}

\* String.prototype.trim
Trim(s) ==
    LET keep == {i \in 1..Len(s) : ~IsWhite(s[i])}
    IN  IF keep = {} THEN <<>> ELSE SubSeq(s, SetMin(keep), SetMax(keep))

\* String.prototype.startsWith
StartsWith(s, p) == Len(p) <= Len(s) /\ SubSeq(s, 1, Len(p)) = p

\* Length of the run of decimal digits that s begins with.
DigitRun(s) ==
    LET stop == {i \in 1..Len(s) : ~IsDigit(s[i])}
    IN  IF stop = {} THEN Len(s) ELSE SetMin(stop) - 1

RECURSIVE DigitsValue(_)
DigitsValue(s) ==
    IF s = <<>> THEN 0
    ELSE 10 * DigitsValue(SubSeq(s, 1, Len(s) - 1)) + DigitVal(s[Len(s)])

Drop(s, n) == SubSeq(s, n + 1, Len(s))

Fin(v) == [k |-> "fin", v |-> v]
NaN == [k |-> "nan", v |-> 0]
PosInf == [k |-> "inf", v |-> 0]
NegInf == [k |-> "ninf", v |-> 0]
\* undefined where a number is expected (parseNumber's "number | undefined").
UndefinedNumber == [k |-> "undefined", v |-> 0]

\* Number.isFinite
IsFinite(n) == n.k = "fin"

InfinityWord == <<"I", "n", "f", "i", "n", "i", "t", "y">>

\* Number.parseFloat: leading white space is skipped, then the longest prefix
\* that is a decimal literal is converted; no such prefix gives NaN.
TrimStart(s) ==
    LET keep == {i \in 1..Len(s) : ~IsWhite(s[i])}
    IN  IF keep = {} THEN <<>> ELSE Drop(s, SetMin(keep) - 1)

\* The two leading digits of a fraction, as hundredths.
Hundredths(frac) ==
    IF Len(frac) = 0 THEN 0
    ELSE IF Len(frac) = 1 THEN 10 * DigitVal(frac[1])
    ELSE 10 * DigitVal(frac[1]) + DigitVal(frac[2])

\* The fraction digits that follow an integer part: those after a ".".
FractionDigits(rest) ==
    IF rest # <<>> /\ rest[1] = "."
    THEN SubSeq(rest, 2, 1 + DigitRun(Drop(rest, 1)))
    ELSE <<>>

\* An unsigned decimal literal at the start of u, or NaN.
ParseUnsigned(u, n1) ==
    IF n1 = 0 /\ FractionDigits(u) = <<>> THEN NaN
    ELSE Fin(100 * DigitsValue(SubSeq(u, 1, n1)) + Hundredths(FractionDigits(Drop(u, n1))))

Negate(n) == IF n.k = "fin" THEN Fin(0 - n.v) ELSE IF n.k = "inf" THEN NegInf ELSE n

ParseSigned(u) ==
    IF StartsWith(u, InfinityWord) THEN PosInf ELSE ParseUnsigned(u, DigitRun(u))

ParseTrimmed(t) ==
    IF t # <<>> /\ t[1] = "-" THEN Negate(ParseSigned(Drop(t, 1)))
    ELSE IF t # <<>> /\ t[1] = "+" THEN ParseSigned(Drop(t, 1))
    ELSE ParseSigned(t)

ParseFloat(s) == ParseTrimmed(TrimStart(s))

\* Math.min / Math.max on the numbers of the model (never NaN here).
MathMin(a, b) ==
    IF a.k = "ninf" \/ b.k = "ninf" THEN NegInf
    ELSE IF a.k = "inf" THEN b
    ELSE IF b.k = "inf" THEN a
    ELSE IF a.v <= b.v THEN a ELSE b

MathMax(a, b) ==
    IF a.k = "inf" \/ b.k = "inf" THEN PosInf
    ELSE IF a.k = "ninf" THEN b
    ELSE IF b.k = "ninf" THEN a
    ELSE IF a.v >= b.v THEN a ELSE b

\* ------------------------------------------------------------------------
\* RowTransformer: pick, parseNumber, mapRow
\* ------------------------------------------------------------------------

\* pick(row, keys): the first key of the list whose value in the row is a
\* string that is not blank, trimmed.
RECURSIVE pick(_, _)
pick(row, keys) ==
    IF keys = <<>> THEN Undefined
    ELSE IF keys[1] \in DOMAIN row /\ Len(Trim(row[keys[1]])) > 0
         THEN Trim(row[keys[1]])
         ELSE pick(row, Tail(keys))

\* (mutant) parseNumber without the Number.isFinite test.
parseNumber_NoFiniteTest(raw) ==
    IF raw = Undefined \/ raw = <<>> THEN UndefinedNumber ELSE ParseFloat(raw)

\* parseNumber(raw): undefined for a missing or empty string and for a
\* value that is not finite.
parseNumber(raw) ==
    IF raw = Undefined \/ raw = <<>> THEN UndefinedNumber
    ELSE LET parsed == ParseFloat(raw)
         IN  IF ~IsFinite(parsed) THEN UndefinedNumber ELSE parsed

IdKeys == <<"ATCOCode", "AtcoCode", "atcocode">>
AreaKeys == <<"AdministrativeAreaCode", "AdminAreaCode", "administrativeareacode">>
LatKeys == <<"Latitude", "latitude", "Lat", "lat">>
LngKeys == <<"Longitude", "longitude", "Lon", "lon", "Lng", "lng">>
NameKeys == <<"CommonName", "StopName", "ShortCommonName", "Descriptor", "Name", "name">>

\* (mutant) the prefix is looked for anywhere in the id.
PrefixRejects_Includes(id, atcoPrefix) ==
    /\ atcoPrefix # Null
    /\ atcoPrefix # <<>>
    /\ ~\E k \in 0..Len(id) : StartsWith(Drop(id, k), atcoPrefix)

\* The prefix test of mapRow: a null or empty prefix is falsy.
PrefixRejects(id, atcoPrefix) ==
    atcoPrefix # Null /\ atcoPrefix # <<>> /\ ~StartsWith(id, atcoPrefix)

\* mapRow(row, atcoPrefix): <<>> is null (skip), <<stop>> a StopRow.
mapRow(row, atcoPrefix) ==
    LET id == pick(row, IdKeys)
        areaCode == pick(row, AreaKeys)
        lat == parseNumber(pick(row, LatKeys))
        lng == parseNumber(pick(row, LngKeys))
        named == pick(row, NameKeys)
    IN  IF id = Undefined THEN <<>>
        ELSE IF PrefixRejects(id, atcoPrefix) THEN <<>>
        ELSE IF lat = UndefinedNumber \/ lng = UndefinedNumber THEN <<>>
        ELSE << [id |-> id,
                 name |-> IF named = Undefined THEN id ELSE named,
                 lat |-> lat,
                 lng |-> lng,
                 localityName |-> pick(row, <<"LocalityName", "Town">>),
                 adminAreaCode |-> areaCode,
                 stopType |-> pick(row, <<"StopType">>),
                 stopAreaCode |-> pick(row, <<"StopAreaCode">>),
                 indicator |-> pick(row, <<"Indicator">>),
                 street |-> pick(row, <<"Street">>),
                 bearing |-> pick(row, <<"Bearing">>),
                 nptgLocalityCode |-> pick(row, <<"NptgLocalityCode">>),
                 status |-> pick(row, <<"Status">>)] >>

\* ------------------------------------------------------------------------
\* Command line: parseArgs
\* ------------------------------------------------------------------------

\* An argv token is a string; an option name is written as one element.
FlagSource == << "--source" >>
FlagPrefix == << "--prefix" >>
FlagAtcoPrefix == << "--atcoPrefix" >>
FlagNoRtree == << "--no-rtree" >>
ArgAll == <<"a", "l", "l">>
ArgStar == << "*" >>

\* naptan-stops-sqlite.ts:20, and a local file given with --source.
DEFAULT_SOURCE == << "https://naptan.api.dft.gov.uk/v1/access-nodes?dataFormat=csv" >>
LocalSource == << "./access-nodes.csv" >>

\* /^https?:/i
isRemoteSource(source) == source = DEFAULT_SOURCE

\* A path is a directory, a base name and a suffix appended to the name.
PathJoin(dir, base) == [dir |-> dir, base |-> base, ext |-> ""]
DirName(p) == p.dir
BaseName(p) == p.base
\* `${dbPath}-wal`, `${dbPath}-shm`
WithSuffix(p, sfx) == [p EXCEPT !.ext = sfx]

OutDir == "data/buses"
getDefaultOutPath == PathJoin(OutDir, "stops.sqlite")

\* args[i + 1] ?? dflt
ArgAfter(args, i, dflt) == IF i + 1 <= Len(args) THEN args[i + 1] ELSE dflt

RECURSIVE ParseArgsFrom(_, _, _)
ParseArgsFrom(args, i, options) ==
    IF i > Len(args) THEN options
    ELSE IF args[i] = FlagSource
         THEN ParseArgsFrom(args, i + 2,
                  [options EXCEPT !.source = ArgAfter(args, i, options.source)])
    ELSE IF args[i] = FlagPrefix \/ args[i] = FlagAtcoPrefix
         THEN ParseArgsFrom(args, i + 2,
                  [options EXCEPT !.atcoPrefix =
                      IF i + 1 <= Len(args) /\ args[i + 1] \in {ArgAll, ArgStar}
                      THEN Null
                      ELSE ArgAfter(args, i, options.atcoPrefix)])
    ELSE IF args[i] = FlagNoRtree
         THEN ParseArgsFrom(args, i + 1, [options EXCEPT !.useRtree = FALSE])
    ELSE ParseArgsFrom(args, i + 1, options)

\* parseArgs(argv), argv without its first two elements.
parseArgs(args) ==
    ParseArgsFrom(args, 1,
        [source |-> DEFAULT_SOURCE,
         out |-> getDefaultOutPath,
         atcoPrefix |-> DEFAULT_ATCO_PREFIX,
         useRtree |-> TRUE])

\* ------------------------------------------------------------------------
\* Files
\* ------------------------------------------------------------------------

\* The directories mkdtemp makes: os.tmpdir()/naptan-XXXXXX and
\* <outDir>/.stops-XXXXXX.
DownloadDir == "tmp/naptan-XXXXXX"
StagingDir == "data/buses/.stops-XXXXXX"

CsvFile == [kind |-> "csv"]
SidecarFile == [kind |-> "sidecar"]

\* A database file: the stops table (a row's position is its rowid) and
\* the stops_rtree virtual table (a set of entries, one per id).
NewDatabaseFile ==
    [kind |-> "sqlite", hasStops |-> FALSE, stops |-> <<>>,
     hasRtree |-> FALSE, rtree |-> {}]

\* (mutant) the database is built in place, at the destination path.
createTempDbPath_InPlace(outPath) ==
    [tmpDir |-> DirName(outPath), tmpPath |-> outPath]

\* (mutant) the staging file is made in the output directory itself, which
\* is then what the cleanup removes.
createTempDbPath_InOutDir(outPath) ==
    [tmpDir |-> DirName(outPath), tmpPath |-> PathJoin(DirName(outPath), ".stops-tmp")]

\* createTempDbPath(outPath)
createTempDbPath(outPath) ==
    [tmpDir |-> StagingDir, tmpPath |-> PathJoin(StagingDir, BaseName(outPath))]

\* fsp.rm(path, { force: true }) of a file
RemoveFile(fsys, p) == [q \in (DOMAIN fsys) \ {p} |-> fsys[q]]

\* fsp.rm(dir, { recursive: true, force: true })
RemoveTree(fsys, dir) == [q \in {r \in DOMAIN fsys : r.dir # dir} |-> fsys[q]]

\* fsp.rename(from, to): the file at `to`, if any, is replaced.
RenameFile(fsys, from, to) ==
    [q \in ((DOMAIN fsys) \ {from}) \cup {to} |->
        IF q = to THEN fsys[from] ELSE fsys[q]]

\* (mutant) the sidecar fsys are left where they are.
ensureNoSidecars_Skip(fsys, dbPath) == fsys

\* (mutant) only the -wal file is removed.
ensureNoSidecars_WalOnly(fsys, dbPath) == RemoveFile(fsys, WithSuffix(dbPath, "-wal"))

\* ensureNoSidecars(dbPath)
ensureNoSidecars(fsys, dbPath) ==
    RemoveFile(RemoveFile(fsys, WithSuffix(dbPath, "-wal")), WithSuffix(dbPath, "-shm"))

\* Writing a file, created if absent.
WriteFile(fsys, p, content) ==
    [q \in (DOMAIN fsys) \cup {p} |-> IF q = p THEN content ELSE fsys[q]]

\* db.close(): whether the engine leaves its -wal and -shm files beside the
\* database it closes is the engine's choice.
CloseDatabase(fsys, dbPath, wal, shm) ==
    LET withWal == IF wal THEN WriteFile(fsys, WithSuffix(dbPath, "-wal"), SidecarFile)
                   ELSE fsys
    IN  IF shm THEN WriteFile(withWal, WithSuffix(dbPath, "-shm"), SidecarFile)
        ELSE withWal

EmptyFiles == [q \in {} |-> CsvFile]

\* ------------------------------------------------------------------------
\* The database engine, as the builder uses it
\* ------------------------------------------------------------------------

\* value ?? null
OrNull(v) == IF v = Undefined THEN Null ELSE v

\* The parameters insertStop.run binds, as a row of the stops table.
BoundRow(row) ==
    [id |-> row.id,
     name |-> row.name,
     lat |-> row.lat,
     lng |-> row.lng,
     locality_name |-> OrNull(row.localityName),
     admin_area_code |-> OrNull(row.adminAreaCode),
     stop_type |-> OrNull(row.stopType),
     stop_area_code |-> OrNull(row.stopAreaCode),
     indicator |-> OrNull(row.indicator),
     street |-> OrNull(row.street),
     bearing |-> OrNull(row.bearing),
     nptg_locality_code |-> OrNull(row.nptgLocalityCode),
     status |-> OrNull(row.status)]

\* (mutant) INSERT OR REPLACE: a row with the id of an earlier one takes
\* its place.
insertStop_Replace(conn, row) ==
    LET others == SelectSeq(conn.file.stops, LAMBDA r : r.id # row.id)
    IN  [file |-> [conn.file EXCEPT !.stops = Append(others, BoundRow(row))],
         lastInsertRowid |-> Len(others) + 1,
         changes |-> 1]

\* (mutant) a stops table without its primary key: every row is inserted.
insertStop_NoKey(conn, row) ==
    [file |-> [conn.file EXCEPT !.stops = Append(@, BoundRow(row))],
     lastInsertRowid |-> Len(conn.file.stops) + 1,
     changes |-> 1]

\* INSERT OR IGNORE INTO stops: a row that breaks a constraint (id PRIMARY
\* KEY; name, lat, lng NOT NULL, a NaN being bound as NULL) is left out and
\* changes is 0; otherwise the row is appended with the next rowid.
\* conn is [file, lastInsertRowid]; the result adds changes.
insertStop(conn, row) ==
    LET stops == conn.file.stops
        breaks == \/ \E i \in 1..Len(stops) : stops[i].id = row.id
                  \/ row.lat.k = "nan"
                  \/ row.lng.k = "nan"
    IN  IF breaks
        THEN [file |-> conn.file, lastInsertRowid |-> conn.lastInsertRowid,
              changes |-> 0]
        ELSE [file |-> [conn.file EXCEPT !.stops = Append(stops, BoundRow(row))],
              lastInsertRowid |-> Len(stops) + 1,
              changes |-> 1]

\* INSERT OR REPLACE INTO stops_rtree (id, minX, maxX, minY, maxY)
insertRtree(file, id, minX, maxX, minY, maxY) ==
    [file EXCEPT !.rtree =
        {e \in file.rtree : e.id # id}
        \cup {[id |-> id, minX |-> minX, maxX |-> maxX, minY |-> minY, maxY |-> maxY]}]

\* (mutant) the rectangle is inserted without the test on changes.
InsertOne_NoChangesTest(conn, row, enabled) ==
    LET result == insertStop(conn, row)
    IN  IF enabled
        THEN [file |-> insertRtree(result.file, result.lastInsertRowid,
                                   row.lng, row.lng, row.lat, row.lat),
              lastInsertRowid |-> result.lastInsertRowid]
        ELSE [file |-> result.file, lastInsertRowid |-> result.lastInsertRowid]

\* The body of insertBatch's loop for one row.
InsertOne(conn, row, enabled) ==
    LET result == insertStop(conn, row)
    IN  IF enabled /\ result.changes = 1
        THEN [file |-> insertRtree(result.file, result.lastInsertRowid,
                                   row.lng, row.lng, row.lat, row.lat),
              lastInsertRowid |-> result.lastInsertRowid]
        ELSE [file |-> result.file, lastInsertRowid |-> result.lastInsertRowid]

\* insertBatch(rows): the rows in order, in one transaction.
RECURSIVE insertBatch(_, _, _)
insertBatch(conn, rows, enabled) ==
    IF rows = <<>> THEN conn
    ELSE insertBatch(InsertOne(conn, Head(rows), enabled), Tail(rows), enabled)

\* (mutant) the failure of CREATE VIRTUAL TABLE is caught but the index
\* stays enabled.
setupSchema_KeepsEnabled(file, useRtree, rtreeSupported) ==
    [file |-> [file EXCEPT !.hasStops = TRUE,
                           !.hasRtree = file.hasRtree \/ (useRtree /\ rtreeSupported)],
     rtreeEnabled |-> useRtree]

\* setupSchema(db, useRtree) on the file of the connection: the stops table
\* and its indexes, then, when asked for, the stops_rtree table, whose
\* failure (an engine without the rtree module) is caught.
\* CREATE ... IF NOT EXISTS keeps what is there.
setupSchema(file, useRtree, rtreeSupported) ==
    [file |-> [file EXCEPT !.hasStops = TRUE,
                           !.hasRtree = file.hasRtree \/ (useRtree /\ rtreeSupported)],
     rtreeEnabled |-> useRtree /\ rtreeSupported]

\* ------------------------------------------------------------------------
\* Inputs of a run
\* ------------------------------------------------------------------------

Id370000001 == <<"3", "7", "0", "0", "0", "0", "0", "0", "1">>

\* {id: "370000001", lat: 53.38, lng: -1.47, name: "Fargate"}
RowFargate ==
    ("ATCOCode" :> Id370000001)
    @@ ("CommonName" :> <<"F", "a", "r", "g", "a", "t", "e">>)
    @@ ("Latitude" :> <<"5", "3", ".", "3", "8">>)
    @@ ("Longitude" :> <<"-", "1", ".", "4", "7">>)
    @@ ("Street" :> <<"F", "a", "r", "g", "a", "t", "e">>)
    @@ ("Status" :> <<"a", "c", "t">>)

\* The same id again (padded), other attributes, north of the sanity box.
RowFargateAgain ==
    ("ATCOCode" :> <<" ">> \o Id370000001 \o <<" ">>)
    @@ ("CommonName" :> <<"H", "i", "g", "h", " ", "S", "t">>)
    @@ ("Latitude" :> <<"6", "2", ".", "0", "0">>)
    @@ ("Longitude" :> <<"-", "1", ".", "4", "0">>)
    @@ ("Indicator" :> <<"o", "p", "p">>)

\* Another area's stop, under other header synonyms and without a name.
RowLondon ==
    ("AtcoCode" :> <<"9", "4", "0", "2">>)
    @@ ("lat" :> <<"5", "1", ".", "5">>)
    @@ ("lng" :> <<"-", "0", ".", "1", "2">>)
    @@ ("CommonName" :> <<" ">>)

\* Latitude that is no number.
RowBadLat ==
    ("ATCOCode" :> <<"3", "7", "0", "3">>)
    @@ ("CommonName" :> <<"M", "o", "o", "r">>)
    @@ ("Latitude" :> <<"n", "/", "a">>)
    @@ ("Longitude" :> <<"-", "1", ".", "4", "7">>)

\* No identifier.
RowNoId ==
    ("ATCOCode" :> <<" ", " ">>)
    @@ ("Latitude" :> <<"5", "3", ".", "4">>)
    @@ ("Longitude" :> <<"-", "1", ".", "5">>)

RunRows == {RowFargate, RowFargateAgain, RowLondon, RowBadLat, RowNoId}

\* Command lines of the runs.
RunArgvs ==
    {pre \o post :
        pre \in {<<>>, <<FlagPrefix, ArgAll>>},
        post \in {<<>>, <<FlagNoRtree>>, <<FlagSource, LocalSource>>}}

\* A dataset published by an earlier run.
OldStop ==
    [id |-> <<"3", "7", "0", "9">>, name |-> <<"O", "l", "d">>,
     lat |-> Fin(5340), lng |-> Fin(-150),
     locality_name |-> Null, admin_area_code |-> Null, stop_type |-> Null,
     stop_area_code |-> Null, indicator |-> Null, street |-> Null,
     bearing |-> Null, nptg_locality_code |-> Null, status |-> Null]

OldDataset ==
    [kind |-> "sqlite", hasStops |-> TRUE, stops |-> <<OldStop>>,
     hasRtree |-> TRUE,
     rtree |-> {[id |-> 1, minX |-> Fin(-150), maxX |-> Fin(-150),
                 minY |-> Fin(5340), maxY |-> Fin(5340)]}]

\* What the output directory holds before a run: nothing, a published
\* dataset, or a published dataset with sidecar files left beside it.
InitialFiles ==
    LET out == getDefaultOutPath
        published == WriteFile(EmptyFiles, out, OldDataset)
    IN  {EmptyFiles,
         published,
         WriteFile(WriteFile(published, WithSuffix(out, "-wal"), SidecarFile),
                   WithSuffix(out, "-shm"), SidecarFile)}

\* ------------------------------------------------------------------------
\* State
\* ------------------------------------------------------------------------

VARIABLES
    pc,               \* the statement of buildStopsSqlite about to run,
                      \* "done" (exit status 0) or "failed" (exit status 1)
    err,              \* "" or the statement whose exception is pending
    argv,             \* process.argv.slice(2)
    options,          \* CliOptions
    files,            \* the file system: path -> content, for the files there
    dirs,             \* the directories there
    tmp,              \* csvDir, csvPath, dbDir, dbPath of the run
    dbOpen,           \* the connection `db` is open
    rtreeEnabled,     \* setupSchema's result
    lastInsertRowid,  \* the connection's last insert rowid
    stats,            \* totalRows, keptRows, skippedRows, min/max lat/lng
    batch,            \* the pending batch
    consumed,         \* the records the CSV stream has yielded so far
    log,              \* what logInfo, logWarn and logError have written
    initialFiles,     \* the file system when the run started
    validation        \* the outcome of the validator, once it has run

vars == <<pc, err, argv, options, files, dirs, tmp, dbOpen, rtreeEnabled,
          lastInsertRowid, stats, batch, consumed, log, initialFiles, validation>>

NoPath == [dir |-> "", base |-> "", ext |-> ""]
NoTmp == [csvDir |-> "", csvPath |-> NoPath, dbDir |-> "", dbPath |-> NoPath]

InitialStats ==
    [totalRows |-> 0, keptRows |-> 0, skippedRows |-> 0,
     minLat |-> PosInf, maxLat |-> NegInf, minLng |-> PosInf, maxLng |-> NegInf]

NotValidated == [status |-> "notrun", error |-> "", log |-> <<>>]

LogEntry(lvl, key, val, text) == [lvl |-> lvl, key |-> key, val |-> val, text |-> text]

\* run().catch: logError(message); process.exit(1)
Exit1(at) ==
    /\ pc' = "failed"
    /\ err' = at
    /\ log' = Append(log, LogEntry("error", at, <<>>, <<>>))

ExitCode == IF pc = "done" THEN 0 ELSE IF pc = "failed" THEN 1 ELSE -1

Init ==
    /\ pc = "mkdtempCsv"
    /\ err = ""
    /\ argv \in RunArgvs
    /\ options = parseArgs(argv)
    /\ files \in InitialFiles
    /\ dirs = IF files = EmptyFiles THEN {} ELSE {OutDir}
    /\ tmp = NoTmp
    /\ dbOpen = FALSE
    /\ rtreeEnabled = FALSE
    /\ lastInsertRowid = 0
    /\ stats = InitialStats
    /\ batch = <<>>
    /\ consumed = <<>>
    /\ log = <<>>
    /\ initialFiles = files
    /\ validation = NotValidated

\* ------------------------------------------------------------------------
\* SourceAcquirer: resolveSourceToTempFile
\* ------------------------------------------------------------------------

\* fsp.mkdtemp(path.join(os.tmpdir(), "naptan-"))
MakeDownloadDir ==
    /\ pc = "mkdtempCsv"
    /\ \/ /\ dirs' = dirs \cup {DownloadDir}
          /\ tmp' = [tmp EXCEPT !.csvDir = DownloadDir,
                               !.csvPath = PathJoin(DownloadDir, "access-nodes.csv")]
          /\ pc' = "fetch"
          /\ UNCHANGED <<err, log>>
       \/ /\ Exit1("mkdtempCsv")
          /\ UNCHANGED <<dirs, tmp>>
    /\ UNCHANGED <<argv, options, files, dbOpen, rtreeEnabled, lastInsertRowid,
                   stats, batch, consumed, initialFiles, validation>>

\* The fetch and pipeline of a remote source, the copyFile of a local one.
\* A failed response writes nothing; a pipeline or copy that fails may
\* leave a file behind in the download directory.
FetchSource ==
    /\ pc = "fetch"
    /\ \/ /\ files' = WriteFile(files, tmp.csvPath, CsvFile)
          /\ log' = Append(log, LogEntry("info",
                        IF isRemoteSource(options.source)
                        THEN "Downloading" ELSE "Using local file", <<>>, <<>>))
          /\ pc' = "mkStaging"
          /\ UNCHANGED err
       \/ /\ isRemoteSource(options.source)
          /\ pc' = "failed"
          /\ err' = "fetch"
          /\ log' = log \o <<LogEntry("info", "Downloading", <<>>, <<>>),
                             LogEntry("error", "Network error", <<>>, <<>>)>>
          /\ UNCHANGED files
       \/ /\ \E partial \in BOOLEAN :
                files' = IF partial THEN WriteFile(files, tmp.csvPath, CsvFile) ELSE files
          /\ pc' = "failed"
          /\ err' = "fetch"
          /\ log' = log \o <<LogEntry("info",
                                 IF isRemoteSource(options.source)
                                 THEN "Downloading" ELSE "Using local file", <<>>, <<>>),
                             LogEntry("error", "fetch", <<>>, <<>>)>>
    /\ UNCHANGED <<argv, options, dirs, tmp, dbOpen, rtreeEnabled, lastInsertRowid,
                   stats, batch, consumed, initialFiles, validation>>

\* ------------------------------------------------------------------------
\* SchemaManager: createTempDbPath, new Database, setupSchema, db.query
\* ------------------------------------------------------------------------

\* createTempDbPath(options.out): mkdir -p of the output directory, then
\* mkdtemp inside it.
MakeStagingDir ==
    /\ pc = "mkStaging"
    /\ \/ /\ LET t == createTempDbPath(options.out)
             IN  /\ dirs' = dirs \cup {DirName(options.out), t.tmpDir}
                 /\ tmp' = [tmp EXCEPT !.dbDir = t.tmpDir, !.dbPath = t.tmpPath]
          /\ pc' = "open"
          /\ UNCHANGED <<err, log>>
       \/ /\ \E made \in BOOLEAN :
                dirs' = IF made THEN dirs \cup {DirName(options.out)} ELSE dirs
          /\ Exit1("mkStaging")
          /\ UNCHANGED tmp
    /\ UNCHANGED <<argv, options, files, dbOpen, rtreeEnabled, lastInsertRowid,
                   stats, batch, consumed, initialFiles, validation>>

\* (mutant) the staging database starts as a copy of the published one.
OpenDatabase_FromPublished ==
    /\ pc = "open"
    /\ files' = WriteFile(files, tmp.dbPath,
                          IF options.out \in DOMAIN files THEN files[options.out]
                          ELSE NewDatabaseFile)
    /\ dbOpen' = TRUE
    /\ pc' = "schema"
    /\ UNCHANGED <<err, log, argv, options, dirs, tmp, rtreeEnabled, lastInsertRowid,
                   stats, batch, consumed, initialFiles, validation>>

\* new Database(dbPath): opens the file at dbPath, created if absent.
OpenDatabase ==
    /\ pc = "open"
    /\ \/ /\ files' = IF tmp.dbPath \in DOMAIN files THEN files
                      ELSE WriteFile(files, tmp.dbPath, NewDatabaseFile)
          /\ dbOpen' = TRUE
          /\ pc' = "schema"
          /\ UNCHANGED <<err, log>>
       \/ /\ Exit1("open")
          /\ UNCHANGED <<files, dbOpen>>
    /\ UNCHANGED <<argv, options, dirs, tmp, rtreeEnabled, lastInsertRowid,
                   stats, batch, consumed, initialFiles, validation>>

\* setupSchema(db, options.useRtree).  Whether the engine has the rtree
\* module is the environment's choice; its absence is caught.
SetupSchema ==
    /\ pc = "schema"
    /\ \/ /\ \E rtreeSupported \in BOOLEAN :
                LET schema == setupSchema(files[tmp.dbPath], options.useRtree,
                                          rtreeSupported)
                IN  /\ files' = WriteFile(files, tmp.dbPath, schema.file)
                    /\ rtreeEnabled' = schema.rtreeEnabled
          /\ pc' = "prepare"
          /\ UNCHANGED <<err, log>>
       \/ /\ Exit1("schema")
          /\ UNCHANGED <<files, rtreeEnabled>>
    /\ UNCHANGED <<argv, options, dirs, tmp, dbOpen, lastInsertRowid,
                   stats, batch, consumed, initialFiles, validation>>

\* db.query(...) of insertStop and insertRtree, db.transaction(...)
PrepareStatements ==
    /\ pc = "prepare"
    /\ \/ /\ pc' = "load"
          /\ UNCHANGED <<err, log>>
       \/ Exit1("prepare")
    /\ UNCHANGED <<argv, options, files, dirs, tmp, dbOpen, rtreeEnabled,
                   lastInsertRowid, stats, batch, consumed, initialFiles, validation>>

\* ------------------------------------------------------------------------
\* BatchLoader: the try block of buildStopsSqlite
\* ------------------------------------------------------------------------

\* (mutant) a skipped row is counted as seen but not as skipped.
Tally_SkipUncounted(st, mapped) ==
    IF mapped = <<>>
    THEN [st EXCEPT !.totalRows = @ + 1]
    ELSE [st EXCEPT !.totalRows = @ + 1,
                    !.keptRows = @ + 1,
                    !.minLat = MathMin(@, mapped[1].lat),
                    !.maxLat = MathMax(@, mapped[1].lat),
                    !.minLng = MathMin(@, mapped[1].lng),
                    !.maxLng = MathMax(@, mapped[1].lng)]

\* (mutant) the box is taken from the first kept row and not widened.
Tally_BoxOfFirstRow(st, mapped) ==
    IF mapped = <<>>
    THEN [st EXCEPT !.totalRows = @ + 1, !.skippedRows = @ + 1]
    ELSE IF st.keptRows > 0
    THEN [st EXCEPT !.totalRows = @ + 1, !.keptRows = @ + 1]
    ELSE [st EXCEPT !.totalRows = @ + 1,
                    !.keptRows = @ + 1,
                    !.minLat = mapped[1].lat,
                    !.maxLat = mapped[1].lat,
                    !.minLng = mapped[1].lng,
                    !.maxLng = mapped[1].lng]

\* One iteration of the for-await loop on the record `raw`.
Tally(st, mapped) ==
    IF mapped = <<>>
    THEN [st EXCEPT !.totalRows = @ + 1, !.skippedRows = @ + 1]
    ELSE [st EXCEPT !.totalRows = @ + 1,
                    !.keptRows = @ + 1,
                    !.minLat = MathMin(@, mapped[1].lat),
                    !.maxLat = MathMax(@, mapped[1].lat),
                    !.minLng = MathMin(@, mapped[1].lng),
                    !.maxLng = MathMax(@, mapped[1].lng)]

\* (mutant) the batch is flushed once it exceeds BATCH_SIZE.
BatchFull_Exceeds(b) == Len(b) > BATCH_SIZE

\* batch.length >= BATCH_SIZE
BatchFull(b) == Len(b) >= BATCH_SIZE

LoadRow(raw) ==
    LET mapped == mapRow(raw, options.atcoPrefix)
    IN  /\ consumed' = Append(consumed, raw)
        /\ stats' = Tally(stats, mapped)
        /\ batch' = batch \o mapped
        /\ pc' = IF mapped # <<>> /\ BatchFull(batch') THEN "flush" ELSE "load"

\* The stream yields its next record, one of `rows`.
ReadRowFrom(rows, max) ==
    /\ pc = "load"
    /\ Len(consumed) < max
    /\ \E raw \in rows : LoadRow(raw)
    /\ UNCHANGED <<err, argv, options, files, dirs, tmp, dbOpen, rtreeEnabled,
                   lastInsertRowid, log, initialFiles, validation>>

ReadRow == ReadRowFrom(RunRows, MaxRows)

\* The stream fails (a read or parse error): the exception leaves the try
\* block through finally.
StreamError ==
    /\ pc = "load"
    /\ err' = "load"
    /\ pc' = "finally"
    /\ UNCHANGED <<argv, options, files, dirs, tmp, dbOpen, rtreeEnabled,
                   lastInsertRowid, stats, batch, consumed, log, initialFiles,
                   validation>>

\* (mutant) a stream that ends with no row kept is an error.
EndOfStream_RequiresRows ==
    /\ pc = "load"
    /\ IF stats.keptRows = 0
       THEN pc' = "finally" /\ err' = "load"
       ELSE /\ pc' = IF Len(batch) > 0 THEN "flushFinal" ELSE "optimize"
            /\ UNCHANGED err
    /\ UNCHANGED <<argv, options, files, dirs, tmp, dbOpen, rtreeEnabled,
                   lastInsertRowid, stats, batch, consumed, log, initialFiles,
                   validation>>

\* The stream ends: the final partial batch, if any, is flushed next.
EndOfStream ==
    /\ pc = "load"
    /\ pc' = IF Len(batch) > 0 THEN "flushFinal" ELSE "optimize"
    /\ UNCHANGED <<err, argv, options, files, dirs, tmp, dbOpen, rtreeEnabled,
                   lastInsertRowid, stats, batch, consumed, log, initialFiles,
                   validation>>

\* (mutant) a failed transaction is rolled back and the run goes on.
FlushBatch_SwallowsFailure ==
    /\ pc \in {"flush", "flushFinal"}
    /\ batch' = <<>>
    /\ pc' = IF pc = "flush" THEN "load" ELSE "optimize"
    /\ \/ LET conn == insertBatch([file |-> files[tmp.dbPath],
                                   lastInsertRowid |-> lastInsertRowid],
                                  batch, rtreeEnabled)
          IN  /\ files' = WriteFile(files, tmp.dbPath, conn.file)
              /\ lastInsertRowid' = conn.lastInsertRowid
       \/ UNCHANGED <<files, lastInsertRowid>>
    /\ UNCHANGED <<err, argv, options, dirs, tmp, dbOpen, rtreeEnabled, stats,
                   consumed, log, initialFiles, validation>>

\* insertBatch(batch.splice(0, batch.length)): the batch is emptied and its
\* rows are inserted in one transaction, which commits or rolls back whole.
FlushBatch ==
    /\ pc \in {"flush", "flushFinal"}
    /\ batch' = <<>>
    /\ \/ /\ LET conn == insertBatch([file |-> files[tmp.dbPath],
                                      lastInsertRowid |-> lastInsertRowid],
                                     batch, rtreeEnabled)
             IN  /\ files' = WriteFile(files, tmp.dbPath, conn.file)
                 /\ lastInsertRowid' = conn.lastInsertRowid
          /\ pc' = IF pc = "flush" THEN "load" ELSE "optimize"
          /\ UNCHANGED err
       \/ /\ err' = pc
          /\ pc' = "finally"
          /\ UNCHANGED <<files, lastInsertRowid>>
    /\ UNCHANGED <<argv, options, dirs, tmp, dbOpen, rtreeEnabled, stats,
                   consumed, log, initialFiles, validation>>

\* db.exec("PRAGMA optimize;")
Optimize ==
    /\ pc = "optimize"
    /\ \/ /\ pc' = "vacuum"
          /\ UNCHANGED err
       \/ /\ err' = "optimize"
          /\ pc' = "finally"
    /\ UNCHANGED <<argv, options, files, dirs, tmp, dbOpen, rtreeEnabled,
                   lastInsertRowid, stats, batch, consumed, log, initialFiles,
                   validation>>

\* db.exec("VACUUM;"): the file is rebuilt with the same tables and rows.
Vacuum ==
    /\ pc = "vacuum"
    /\ \/ /\ pc' = "finally"
          /\ UNCHANGED err
       \/ /\ err' = "vacuum"
          /\ pc' = "finally"
    /\ UNCHANGED <<argv, options, files, dirs, tmp, dbOpen, rtreeEnabled,
                   lastInsertRowid, stats, batch, consumed, log, initialFiles,
                   validation>>

\* finally: db.close(), which does not throw, then
\* fsp.rm(csvDir, { recursive: true, force: true }); a pending exception is
\* then rethrown, and an exception of the rm takes its place.
Finally ==
    /\ pc = "finally"
    /\ dbOpen' = FALSE
    /\ \E left \in BOOLEAN :
          LET closed == CloseDatabase(files, tmp.dbPath, left, left)
          IN  \/ /\ files' = RemoveTree(closed, tmp.csvDir)
                 /\ dirs' = dirs \ {tmp.csvDir}
                 /\ IF err = ""
                    THEN pc' = "cleanStaging" /\ UNCHANGED <<err, log>>
                    ELSE Exit1(err)
              \/ /\ Exit1("rmCsv")
                 /\ files' = closed
                 /\ UNCHANGED dirs
    /\ UNCHANGED <<argv, options, tmp, rtreeEnabled, lastInsertRowid,
                   stats, batch, consumed, initialFiles, validation>>

\* ------------------------------------------------------------------------
\* AtomicPublisher: the statements after the try block
\* ------------------------------------------------------------------------

\* await ensureNoSidecars(dbPath)
CleanStagingSidecars ==
    /\ pc = "cleanStaging"
    /\ \/ /\ files' = ensureNoSidecars(files, tmp.dbPath)
          /\ pc' = "rmOut"
          /\ UNCHANGED <<err, log>>
       \/ /\ Exit1("cleanStaging")
          /\ UNCHANGED files
    /\ UNCHANGED <<argv, options, dirs, tmp, dbOpen, rtreeEnabled, lastInsertRowid,
                   stats, batch, consumed, initialFiles, validation>>

\* await fsp.rm(options.out, { force: true })
RemoveDestination ==
    /\ pc = "rmOut"
    /\ \/ /\ files' = RemoveFile(files, options.out)
          /\ pc' = "rename"
          /\ UNCHANGED <<err, log>>
       \/ /\ Exit1("rmOut")
          /\ UNCHANGED files
    /\ UNCHANGED <<argv, options, dirs, tmp, dbOpen, rtreeEnabled, lastInsertRowid,
                   stats, batch, consumed, initialFiles, validation>>

\* await fsp.rename(dbPath, options.out)
RenameStaging ==
    /\ pc = "rename"
    /\ \/ /\ tmp.dbPath \in DOMAIN files
          /\ files' = RenameFile(files, tmp.dbPath, options.out)
          /\ pc' = "rmStaging"
          /\ UNCHANGED <<err, log>>
       \/ /\ Exit1("rename")
          /\ UNCHANGED files
    /\ UNCHANGED <<argv, options, dirs, tmp, dbOpen, rtreeEnabled, lastInsertRowid,
                   stats, batch, consumed, initialFiles, validation>>

\* await fsp.rm(dbDir, { recursive: true, force: true })
RemoveStagingDir ==
    /\ pc = "rmStaging"
    /\ \/ /\ files' = RemoveTree(files, tmp.dbDir)
          /\ dirs' = dirs \ {tmp.dbDir}
          /\ pc' = "cleanOut"
          /\ UNCHANGED <<err, log>>
       \/ /\ Exit1("rmStaging")
          /\ UNCHANGED <<files, dirs>>
    /\ UNCHANGED <<argv, options, tmp, dbOpen, rtreeEnabled, lastInsertRowid,
                   stats, batch, consumed, initialFiles, validation>>

\* await ensureNoSidecars(options.out)
CleanDestinationSidecars ==
    /\ pc = "cleanOut"
    /\ \/ /\ files' = ensureNoSidecars(files, options.out)
          /\ pc' = "report"
          /\ UNCHANGED <<err, log>>
       \/ /\ Exit1("cleanOut")
          /\ UNCHANGED files
    /\ UNCHANGED <<argv, options, dirs, tmp, dbOpen, rtreeEnabled, lastInsertRowid,
                   stats, batch, consumed, initialFiles, validation>>

\* The closing logInfo / logWarn lines.  toFixed(6) is exact on the
\* hundredths of the model.
ReportLines ==
    <<LogEntry("info", "Rows processed", <<stats.totalRows>>, <<>>),
      LogEntry("info", "Rows kept", <<stats.keptRows>>, <<>>),
      LogEntry("info", "Rows skipped", <<stats.skippedRows>>, <<>>)>>
    \o (IF stats.keptRows > 0
        THEN <<LogEntry("info", "Latitude range", <<stats.minLat.v, stats.maxLat.v>>, <<>>),
               LogEntry("info", "Longitude range", <<stats.minLng.v, stats.maxLng.v>>, <<>>)>>
        ELSE <<>>)
    \o (IF options.atcoPrefix # Null /\ options.atcoPrefix # <<>>
        THEN <<LogEntry("info", "ATCO prefix filter", <<>>, options.atcoPrefix)>>
        ELSE <<LogEntry("info", "ATCO prefix filter: none", <<>>, <<>>)>>)
    \o (IF options.useRtree /\ ~rtreeEnabled
        THEN <<LogEntry("warn", "RTree module unavailable", <<>>, <<>>)>>
        ELSE IF rtreeEnabled
        THEN <<LogEntry("info", "RTree enabled", <<>>, <<>>)>>
        ELSE <<>>)
    \o <<LogEntry("info", "Done", <<>>, <<>>)>>

Report ==
    /\ pc = "report"
    /\ log' = log \o ReportLines
    /\ pc' = "done"
    /\ UNCHANGED <<err, argv, options, files, dirs, tmp, dbOpen, rtreeEnabled,
                   lastInsertRowid, stats, batch, consumed, initialFiles, validation>>

\* ------------------------------------------------------------------------
\* Validator: validate-stops-sqlite.ts
\* ------------------------------------------------------------------------

\* a <= b on the numbers of the model
NumLeq(a, b) ==
    \/ a.k = "ninf"
    \/ b.k = "inf"
    \/ a.k = "fin" /\ b.k = "fin" /\ a.v <= b.v

\* SELECT MIN(lat), MAX(lat), MIN(lng), MAX(lng) FROM stops
RECURSIVE SqlRange(_, _)
SqlRange(rows, acc) ==
    IF rows = <<>> THEN acc
    ELSE SqlRange(Tail(rows),
             [minLat |-> MathMin(acc.minLat, Head(rows).lat),
              maxLat |-> MathMax(acc.maxLat, Head(rows).lat),
              minLng |-> MathMin(acc.minLng, Head(rows).lng),
              maxLng |-> MathMax(acc.maxLng, Head(rows).lng)])

NoRange == [minLat |-> PosInf, maxLat |-> NegInf, minLng |-> PosInf, maxLng |-> NegInf]

\* SELECT COUNT(*) as count FROM stops
SqlCount(rows) == Len(rows)

\* validateStops(dbPath) then validateNoSidecars(dbPath): the message of the
\* first assertion that fails ("" when none does) and the lines written
\* before it.
validateStops(fsys, dbPath) ==
    IF dbPath \notin DOMAIN fsys
    THEN [error |-> "Missing SQLite file", log |-> <<>>]
    ELSE LET db == fsys[dbPath]
         IN  IF db.kind # "sqlite" \/ ~db.hasStops
             THEN [error |-> "Missing stops table", log |-> <<>>]
             ELSE IF ~(SqlCount(db.stops) > 0)
             THEN [error |-> "Stops table is empty", log |-> <<>>]
             ELSE LET range == SqlRange(db.stops, NoRange)
                      minLat == range.minLat
                      maxLat == range.maxLat
                      minLng == range.minLng
                      maxLng == range.maxLng
                  IN  IF ~(NumLeq(Fin(UK_LAT_MIN), minLat) /\ NumLeq(maxLat, Fin(UK_LAT_MAX)))
                      THEN [error |-> "Latitude range out of bounds", log |-> <<>>]
                      ELSE IF ~(NumLeq(Fin(UK_LNG_MIN), minLng) /\ NumLeq(maxLng, Fin(UK_LNG_MAX)))
                      THEN [error |-> "Longitude range out of bounds", log |-> <<>>]
                      ELSE [error |-> "",
                            log |-> <<LogEntry("info", "Stops count", <<SqlCount(db.stops)>>, <<>>),
                                      LogEntry("info", "Latitude range", <<minLat.v, maxLat.v>>, <<>>),
                                      LogEntry("info", "Longitude range", <<minLng.v, maxLng.v>>, <<>>)>>]

validateNoSidecars(fsys, dbPath) ==
    IF WithSuffix(dbPath, "-wal") \in DOMAIN fsys THEN "Found WAL file"
    ELSE IF WithSuffix(dbPath, "-shm") \in DOMAIN fsys THEN "Found SHM file"
    ELSE ""

\* (mutant) the sidecars are looked for before the database is opened.
RunValidator_SidecarsFirst(fsys, dbPath) ==
    LET stops == validateStops(fsys, dbPath)
        sidecars == validateNoSidecars(fsys, dbPath)
    IN  IF sidecars # ""
        THEN [status |-> "failed", error |-> sidecars, log |-> <<>>]
        ELSE IF stops.error # ""
        THEN [status |-> "failed", error |-> stops.error, log |-> stops.log]
        ELSE [status |-> "ok", error |-> "",
              log |-> Append(stops.log, LogEntry("info", "Validation complete", <<>>, <<>>))]

\* run() of the validator: exit status 1 with the failed assertion's
\* message, or "Validation complete."
RunValidator(fsys, dbPath) ==
    LET stops == validateStops(fsys, dbPath)
        sidecars == validateNoSidecars(fsys, dbPath)
    IN  IF stops.error # ""
        THEN [status |-> "failed", error |-> stops.error, log |-> stops.log]
        ELSE IF sidecars # ""
        THEN [status |-> "failed", error |-> sidecars, log |-> stops.log]
        ELSE [status |-> "ok", error |-> "",
              log |-> Append(stops.log, LogEntry("info", "Validation complete", <<>>, <<>>))]

\* The validator is run on the destination once the builder has exited.
Validate ==
    /\ pc \in {"done", "failed"}
    /\ validation = NotValidated
    /\ validation' = RunValidator(files, options.out)
    /\ UNCHANGED <<pc, err, argv, options, files, dirs, tmp, dbOpen, rtreeEnabled,
                   lastInsertRowid, stats, batch, consumed, log, initialFiles>>

\* ------------------------------------------------------------------------
\* The loader on one record: the records of a CSV file, field by field
\* ------------------------------------------------------------------------

NoFields == [h \in {} |-> <<>>]
Field(h, v) == IF v = Undefined THEN NoFields ELSE (h :> v)

IdHeaders == {"ATCOCode", "atcocode", "ATCOCODE"}
IdValues ==
    {Id370000001,
     <<" ", "9", "4", "0", "2">>,
     <<"3", "7">>,
     <<"0", "3", "7", "0">>,
     <<" ">>}
LatHeaders == {"Latitude", "lat"}
LatValues ==
    {<<"5", "3", ".", "3", "8">>,
     <<" ", "6", "2", " ">>,
     <<"5", "3", ".", "4", "N">>,
     <<"n", "/", "a">>,
     <<"N", "a", "N">>,
     InfinityWord,
     <<"-">> \o InfinityWord,
     <<".">>,
     <<"-">>,
     <<>>}
LngValues == {<<"-", "1", ".", "4", "7">>, InfinityWord, <<"x">>, Undefined}
NameValues == {<<"F", "a", "r", "g", "a", "t", "e">>, Undefined}

RawRecords ==
    {Field(idH, idV) @@ Field(latH, latV) @@ Field("Longitude", lngV)
        @@ Field("CommonName", nameV) :
        idH \in IdHeaders, idV \in IdValues, latH \in LatHeaders,
        latV \in LatValues, lngV \in LngValues, nameV \in NameValues}

\* Command lines: every way of giving the prefix filter.
LoaderArgvs ==
    {<<>>,
     <<FlagPrefix, <<"3", "7", "0">>>>,
     <<FlagAtcoPrefix, <<"9", "4", "0">>>>,
     <<FlagPrefix, ArgAll>>,
     <<FlagPrefix, ArgStar>>,
     <<FlagPrefix, <<>>>>,
     <<FlagNoRtree, FlagPrefix>>,
     <<FlagPrefix, <<"3", "7", "0">>, FlagNoRtree>>}

\* The run at the start of its load phase: source acquired, staging
\* database opened, schema set up, statements prepared.
InitLoader ==
    /\ pc = "load"
    /\ err = ""
    /\ argv \in LoaderArgvs
    /\ options = parseArgs(argv)
    /\ tmp = [csvDir |-> DownloadDir,
              csvPath |-> PathJoin(DownloadDir, "access-nodes.csv"),
              dbDir |-> createTempDbPath(options.out).tmpDir,
              dbPath |-> createTempDbPath(options.out).tmpPath]
    /\ files = WriteFile(WriteFile(EmptyFiles, tmp.csvPath, CsvFile), tmp.dbPath,
                         setupSchema(NewDatabaseFile, options.useRtree, TRUE).file)
    /\ dirs = {DownloadDir, DirName(options.out), tmp.dbDir}
    /\ dbOpen = TRUE
    /\ rtreeEnabled = options.useRtree
    /\ lastInsertRowid = 0
    /\ stats = InitialStats
    /\ batch = <<>>
    /\ consumed = <<>>
    /\ log = <<LogEntry("info", "Downloading", <<>>, <<>>)>>
    /\ initialFiles = EmptyFiles
    /\ validation = NotValidated

\* The stream yields its only record.
ReadRecord == ReadRowFrom(RawRecords, 1)

NextLoader ==
    \/ ReadRecord
    \/ EndOfStream
    \/ FlushBatch

SpecLoader == InitLoader /\ [][NextLoader]_vars

\* ------------------------------------------------------------------------
\* The validator on any published file
\* ------------------------------------------------------------------------

\* Coordinates inside the sanity box and beyond each of its four sides.
ValidatorCoordinates ==
    {<<5338, -147>>, <<4899, -147>>, <<6151, -147>>, <<5338, -851>>, <<5338, 251>>,
     <<4900, -850>>, <<6150, 250>>}

StopAt(n, c) ==
    [OldStop EXCEPT !.id = <<"s", n>>, !.lat = Fin(c[1]), !.lng = Fin(c[2])]

\* Stops tables of up to two rows.
ValidatorTables ==
    {<<>>}
    \cup {<<StopAt("1", c)>> : c \in ValidatorCoordinates}
    \cup {<<StopAt("1", c), StopAt("2", d)>> : c, d \in ValidatorCoordinates}

\* What the validator may find at dbPath: no file, a database without a
\* stops table, a database with one.
ValidatorDatabases ==
    {NewDatabaseFile}
    \cup {[NewDatabaseFile EXCEPT !.hasStops = TRUE, !.stops = t] : t \in ValidatorTables}

WithSidecars(fsys, dbPath, wal, shm) == CloseDatabase(fsys, dbPath, wal, shm)

ValidatorFiles ==
    {WithSidecars(fsys, getDefaultOutPath, wal, shm) :
        fsys \in {EmptyFiles}
                 \cup {WriteFile(EmptyFiles, getDefaultOutPath, db) : db \in ValidatorDatabases},
        wal \in BOOLEAN, shm \in BOOLEAN}

\* No builder is running; the validator is started on the default path.
InitValidator ==
    /\ pc = "done"
    /\ err = ""
    /\ argv = <<>>
    /\ options = parseArgs(argv)
    /\ files \in ValidatorFiles
    /\ dirs = {OutDir}
    /\ tmp = NoTmp
    /\ dbOpen = FALSE
    /\ rtreeEnabled = FALSE
    /\ lastInsertRowid = 0
    /\ stats = InitialStats
    /\ batch = <<>>
    /\ consumed = <<>>
    /\ log = <<>>
    /\ initialFiles = files
    /\ validation = NotValidated

NextValidator == Validate

SpecValidator == InitValidator /\ [][NextValidator]_vars

\* ------------------------------------------------------------------------
\* Specification
\* ------------------------------------------------------------------------

Next ==
    \/ MakeDownloadDir
    \/ FetchSource
    \/ MakeStagingDir
    \/ OpenDatabase
    \/ SetupSchema
    \/ PrepareStatements
    \/ ReadRow
    \/ StreamError
    \/ EndOfStream
    \/ FlushBatch
    \/ Optimize
    \/ Vacuum
    \/ Finally
    \/ CleanStagingSidecars
    \/ RemoveDestination
    \/ RenameStaging
    \/ RemoveStagingDir
    \/ CleanDestinationSidecars
    \/ Report
    \/ Validate

Spec == Init /\ [][Next]_vars

\* ------------------------------------------------------------------------
\* Vocabulary of the properties
\* ------------------------------------------------------------------------

Out == options.out

\* A dataset was published at the destination before the run.
HadPrevious == Out \in DOMAIN initialFiles

\* The destination file is what it was when the run started.
DestinationUnchanged ==
    /\ (Out \in DOMAIN files) = (Out \in DOMAIN initialFiles)
    /\ Out \in DOMAIN files => files[Out] = initialFiles[Out]

\* The rename into the destination has happened.
Renamed ==
    \/ pc \in {"rmStaging", "cleanOut", "report", "done"}
    \/ pc = "failed" /\ err \in {"rmStaging", "cleanOut"}

\* The run ended in failure at a step that raises a NetworkError or an
\* IOError: fetch or copy, the temporary directories, the removals, the rename.
IOSteps ==
    {"mkdtempCsv", "fetch", "mkStaging", "rmCsv", "cleanStaging", "rmOut",
     "rename", "rmStaging", "cleanOut"}

\* The run is, or failed, after schema setup and before the publish step.
BetweenSchemaAndPublish ==
    \/ pc \in {"prepare", "load", "flush", "flushFinal", "optimize", "vacuum",
               "finally", "cleanStaging", "rmOut"}
    \/ pc = "failed" /\ err \in {"prepare", "load", "flush", "flushFinal",
                                 "optimize", "vacuum", "rmCsv", "cleanStaging"}

\* The rows the transformer has kept so far, in source order.
RECURSIVE KeptOf(_, _)
KeptOf(records, atcoPrefix) ==
    IF records = <<>> THEN <<>>
    ELSE mapRow(Head(records), atcoPrefix) \o KeptOf(Tail(records), atcoPrefix)

Kept == KeptOf(consumed, options.atcoPrefix)

\* The dataset the run is building: in the staging file, then at the
\* destination once renamed.
HasBuilt == tmp.dbPath \in DOMAIN files \/ Renamed
Built == IF tmp.dbPath \in DOMAIN files THEN files[tmp.dbPath] ELSE files[Out]

\* ------------------------------------------------------------------------
\* C1
\* ------------------------------------------------------------------------

\* C1 (as claimed): at every point of a run over a published dataset, the
\* destination path holds either that dataset or the complete new one; it
\* is never absent.  The code removes the destination before the rename.
C1_DestinationAlwaysComplete ==
    HadPrevious =>
        /\ Out \in DOMAIN files
        /\ files[Out] = initialFiles[Out] \/ Renamed

\* ------------------------------------------------------------------------
\* C2
\* ------------------------------------------------------------------------

\* C2 (as claimed): a run that fails with a NetworkError or an IOError, at
\* whichever step, exits non-zero and leaves the destination file as it was
\* before the run.
C2_IOFailureLeavesDestination ==
    (pc = "failed" /\ err \in IOSteps) =>
        /\ ExitCode # 0
        /\ DestinationUnchanged

\* ------------------------------------------------------------------------
\* C3
\* ------------------------------------------------------------------------

\* C3: while the run is between schema setup and the publish step, or has
\* failed there, every file of the output directory is what it was before
\* the run, and the staging path differs from the destination path.
C3_DestinationUntouchedBeforePublish ==
    BetweenSchemaAndPublish =>
        /\ tmp.dbPath # Out
        /\ DestinationUnchanged
        /\ \A p \in (DOMAIN files) \cup (DOMAIN initialFiles) :
              p.dir = DirName(Out) =>
                  /\ p \in DOMAIN files
                  /\ p \in DOMAIN initialFiles
                  /\ files[p] = initialFiles[p]

\* A run over a published dataset that failed at VACUUM, after it had
\* committed rows to the staging file.
C3_Witness ==
    /\ pc = "failed"
    /\ err = "vacuum"
    /\ HadPrevious
    /\ tmp.dbPath \in DOMAIN files
    /\ Len(files[tmp.dbPath].stops) >= 2

\* ------------------------------------------------------------------------
\* C4
\* ------------------------------------------------------------------------

\* kept[i] is the first kept row with its id.
FirstOccurrence(kept, i) == \A h \in 1..(i - 1) : kept[h].id # kept[i].id

\* C4: after a successful run the published stops table holds exactly one
\* row per distinct id among the kept rows, with the attributes of the
\* first kept row of that id in source order.
C4_FirstOccurrenceWins ==
    pc = "done" =>
        LET kept == Kept
            stops == files[Out].stops
        IN  /\ \A i \in 1..Len(kept) : \E j \in 1..Len(stops) : stops[j].id = kept[i].id
            /\ \A j, k \in 1..Len(stops) : stops[j].id = stops[k].id => j = k
            /\ \A j \in 1..Len(stops) :
                  \E i \in 1..Len(kept) :
                      /\ FirstOccurrence(kept, i)
                      /\ stops[j] = BoundRow(kept[i])

\* A successful run that kept an id twice within the first batch and once
\* more in a later batch, each time with other attributes than the first.
C4_Witness ==
    /\ pc = "done"
    /\ \E i, j \in 1..Len(Kept) :
          /\ 1 < i /\ i <= BATCH_SIZE /\ BATCH_SIZE < j
          /\ Kept[i].id = Kept[1].id /\ Kept[i] # Kept[1]
          /\ Kept[j].id = Kept[1].id /\ Kept[j] # Kept[1]

\* ------------------------------------------------------------------------
\* C5
\* ------------------------------------------------------------------------

IdsOf(kept) == {kept[i].id : i \in 1..Len(kept)}
NoRepeatedIdIn(kept) == \A i, j \in 1..Len(kept) : kept[i].id = kept[j].id => i = j
KeptIds == IdsOf(Kept)
NoRepeatedId == NoRepeatedIdIn(Kept)

\* The row count the validator has reported, if it has reported one.
ReportedCounts ==
    {validation.log[i].val[1] :
        i \in {n \in 1..Len(validation.log) : validation.log[n].key = "Stops count"}}

\* C5 (as claimed): after every successful run COUNT(*) of the published
\* stops table equals keptRows, the "Rows kept" counter.
C5_CountEqualsKeptRows ==
    pc = "done" => SqlCount(files[Out].stops) = stats.keptRows

\* C5 (amended): after every successful run COUNT(*) of the published stops
\* table, which is the count the validator reports, equals the number of
\* distinct ids among the kept rows; it is at most keptRows, and equal to
\* keptRows exactly when no two kept rows share an id.
C5_CountEqualsDistinctKeptIds ==
    pc = "done" =>
        LET count == SqlCount(files[Out].stops)
            kept == Kept
        IN  /\ count = Cardinality(IdsOf(kept))
            /\ count <= stats.keptRows
            /\ (count = stats.keptRows) = NoRepeatedIdIn(kept)
            /\ \A c \in ReportedCounts : c = count

\* A successful run with a repeated id, validated: the validator reports
\* fewer rows than were kept.
C5_Witness ==
    /\ pc = "done"
    /\ validation.status = "ok"
    /\ ~NoRepeatedId
    /\ \E c \in ReportedCounts : c < stats.keptRows

\* ------------------------------------------------------------------------
\* C6
\* ------------------------------------------------------------------------

InSanityBox(row) ==
    /\ row.lat.k = "fin" /\ UK_LAT_MIN <= row.lat.v /\ row.lat.v <= UK_LAT_MAX
    /\ row.lng.k = "fin" /\ UK_LNG_MIN <= row.lng.v /\ row.lng.v <= UK_LNG_MAX

\* The ranges the validator has reported lie inside the sanity box.
ReportedRangesInBox ==
    \A i \in 1..Len(validation.log) :
        LET e == validation.log[i]
        IN  /\ e.key = "Latitude range" => UK_LAT_MIN <= e.val[1] /\ e.val[2] <= UK_LAT_MAX
            /\ e.key = "Longitude range" => UK_LNG_MIN <= e.val[1] /\ e.val[2] <= UK_LNG_MAX

ReportsRanges ==
    /\ \E i \in 1..Len(validation.log) : validation.log[i].key = "Latitude range"
    /\ \E i \in 1..Len(validation.log) : validation.log[i].key = "Longitude range"

RectangleOf(stops, j) ==
    [id |-> j, minX |-> stops[j].lng, maxX |-> stops[j].lng,
     minY |-> stops[j].lat, maxY |-> stops[j].lat]

\* C7: with the spatial index enabled, after every committed batch the
\* stops_rtree entries are exactly the degenerate rectangles of the stops
\* rows, one per row, keyed by the row's rowid; a row ignored as a duplicate
\* adds no entry and changes none.
C7_RtreeMatchesStops ==
    (rtreeEnabled /\ HasBuilt) =>
        LET stops == Built.stops
        IN  /\ Built.hasRtree
            /\ Built.rtree = {RectangleOf(stops, j) : j \in 1..Len(stops)}
            /\ Cardinality(Built.rtree) = Len(stops)

\* With the spatial index enabled, two batches are committed: three rows
\* were kept and one of them, a repeated id at other coordinates, was ignored.
C7_Witness ==
    /\ rtreeEnabled
    /\ pc = "optimize"
    /\ Len(Kept) > BATCH_SIZE
    /\ Len(Built.stops) = Len(Kept) - 1
    /\ \E i, j \in 1..Len(Kept) :
          i < j /\ Kept[i].id = Kept[j].id /\ Kept[i].lat # Kept[j].lat

\* ------------------------------------------------------------------------
\* C8
\* ------------------------------------------------------------------------

\* The stops table that the kept rows give: the first kept row of each id,
\* in source order.
RECURSIVE FirstOccurrences(_, _)
FirstOccurrences(kept, i) ==
    IF i > Len(kept) THEN <<>>
    ELSE (IF FirstOccurrence(kept, i) THEN <<BoundRow(kept[i])>> ELSE <<>>)
         \o FirstOccurrences(kept, i + 1)

Warned ==
    \E i \in 1..Len(log) :
        log[i].lvl = "warn" /\ log[i].key = "RTree module unavailable"

\* The creation of stops_rtree was asked for and failed.
RtreeCreationFailed == options.useRtree /\ HasBuilt /\ ~Built.hasRtree

\* C8: when the spatial index is asked for and the creation of stops_rtree
\* fails, the run goes on without it: the statement after setupSchema is
\* reached with the index disabled, and a run that then ends in success has
\* published the stops rows its kept rows give, no stops_rtree table and no
\* entry of one, and has written the warning.
C8_RtreeFallback ==
    /\ (RtreeCreationFailed /\ pc # "failed") => ~rtreeEnabled /\ Built.rtree = {}
    /\ (RtreeCreationFailed /\ pc = "done") =>
          /\ files[Out].stops = FirstOccurrences(Kept, 1)
          /\ files[Out].stops =
                insertBatch([file |-> setupSchema(NewDatabaseFile, TRUE, TRUE).file,
                             lastInsertRowid |-> 0], Kept, TRUE).file.stops
          /\ ~files[Out].hasRtree
          /\ files[Out].rtree = {}
          /\ Warned
    /\ (pc = "done" /\ ~RtreeCreationFailed) => ~Warned

\* A successful run whose engine lacked the rtree module, with rows in both
\* batches.
C8_Witness ==
    /\ pc = "done"
    /\ RtreeCreationFailed
    /\ Len(Kept) > BATCH_SIZE
    /\ Len(files[Out].stops) >= 2
    /\ Warned

\* ------------------------------------------------------------------------
\* C9
\* ------------------------------------------------------------------------

\* The text under the first usable header of `keys` parses to a finite
\* number.
ParsesFinite(row, keys) ==
    pick(row, keys) # Undefined /\ ParseFloat(pick(row, keys)).k = "fin"

IsNumber(n) == n \in [k : {"fin"}, v : Int]

\* C9: every record the stream yields is either skipped or kept as a Stop
\* whose lat and lng are finite numbers; a record whose id resolves and
\* whose latitude or longitude does not parse to a finite number is skipped,
\* whatever its other fields are; so every row of a batch and every row of
\* the stops table has a finite lat and a finite lng.
C9_NoRowWithoutFiniteCoordinates ==
    /\ \A i \in 1..Len(consumed) :
          LET mapped == mapRow(consumed[i], options.atcoPrefix)
          IN  /\ mapped = <<>> \/ Len(mapped) = 1
              /\ mapped # <<>> =>
                    /\ mapped[1].id # Undefined /\ Len(mapped[1].id) > 0
                    /\ IsNumber(mapped[1].lat) /\ IsNumber(mapped[1].lng)
              /\ (~ParsesFinite(consumed[i], LatKeys)
                    \/ ~ParsesFinite(consumed[i], LngKeys)) => mapped = <<>>
    /\ stats.totalRows = Len(consumed)
    /\ stats.keptRows + stats.skippedRows = stats.totalRows
    /\ stats.keptRows = Len(Kept)
    /\ \A i \in 1..Len(batch) : IsNumber(batch[i].lat) /\ IsNumber(batch[i].lng)
    /\ \A i \in 1..Len(Built.stops) :
          IsNumber(Built.stops[i].lat) /\ IsNumber(Built.stops[i].lng)

\* A record whose id resolves and passes the filter, with a finite longitude
\* and a name, whose latitude reads Infinity: it was skipped.
C9_Witness ==
    /\ Len(consumed) = 1
    /\ pick(consumed[1], IdKeys) = Id370000001
    /\ ~PrefixRejects(Id370000001, options.atcoPrefix)
    /\ pick(consumed[1], LatKeys) = InfinityWord
    /\ ParsesFinite(consumed[1], LngKeys)
    /\ pick(consumed[1], NameKeys) # Undefined
    /\ stats.skippedRows = 1
    /\ pc = "optimize"
    /\ Built.stops = <<>>

\* ------------------------------------------------------------------------
\* C10
\* ------------------------------------------------------------------------

\* The record has a resolvable id and finite coordinates.
Eligible(row) ==
    /\ pick(row, IdKeys) # Undefined
    /\ ParsesFinite(row, LatKeys)
    /\ ParsesFinite(row, LngKeys)

\* The command line gives the prefix option the sentinel, last.
SentinelGiven ==
    /\ Len(argv) = 2
    /\ argv[1] \in {FlagPrefix, FlagAtcoPrefix}
    /\ argv[2] = ArgAll

\* C10: a record with a resolvable id and finite coordinates is kept, under
\* a prefix filter P, exactly when its id starts with P, and under the
\* sentinel "all", which parseArgs maps to no filter, whatever its id is;
\* id 370000001 is kept under "370" and skipped under "940".
C10_PrefixFilter ==
    /\ SentinelGiven => options.atcoPrefix = Null
    /\ \A i \in 1..Len(consumed) :
          LET id == pick(consumed[i], IdKeys)
              kept == mapRow(consumed[i], options.atcoPrefix) # <<>>
          IN  Eligible(consumed[i]) =>
                /\ options.atcoPrefix # Null =>
                      (kept <=> StartsWith(id, options.atcoPrefix))
                /\ options.atcoPrefix = Null => kept
                /\ (id = Id370000001 /\ options.atcoPrefix = <<"3", "7", "0">>) => kept
                /\ (id = Id370000001 /\ options.atcoPrefix = <<"9", "4", "0">>) => ~kept
    /\ stats.keptRows = Len(Kept)

\* The record with id 370000001 and finite coordinates was read under the
\* filter "940" and skipped.
C10_Witness ==
    /\ Len(consumed) = 1
    /\ Eligible(consumed[1])
    /\ pick(consumed[1], IdKeys) = Id370000001
    /\ options.atcoPrefix = <<"9", "4", "0">>
    /\ stats.skippedRows = 1
    /\ stats.keptRows = 0

\* ------------------------------------------------------------------------
\* C11
\* ------------------------------------------------------------------------

\* Spellings of one column name that differ only in letter case or in
\* spacing, for the columns of the records read.
HeaderSpellings ==
    {{"ATCOCode", "AtcoCode", "atcocode", "ATCOCODE", "Atco Code"},
     {"Latitude", "latitude", "LATITUDE", " Latitude"},
     {"Lat", "lat", "LAT"},
     {"Longitude", "longitude", "LONGITUDE"},
     {"CommonName", "commonname", "Common Name"}}

\* The other spellings of header h.
Respellings(h) == UNION {g \ {h} : g \in {x \in HeaderSpellings : h \in x}}

\* The record of a file whose header h is spelled h2 instead.
RenameHeader(row, h, h2) ==
    [k \in ((DOMAIN row) \ {h}) \cup {h2} |-> IF k = h2 THEN row[h] ELSE row[k]]

\* C11 (as claimed): a record and the record of a file that differs only in
\* the letter case or the spacing of one header name get the same keep/skip
\* decision and the same Stop.  pick looks the header up by its exact
\* spelling.
C11_HeaderSpellingIrrelevant ==
    \A i \in 1..Len(consumed) :
        \A h \in DOMAIN consumed[i] :
            \A h2 \in Respellings(h) \ DOMAIN consumed[i] :
                mapRow(RenameHeader(consumed[i], h, h2), options.atcoPrefix)
                    = mapRow(consumed[i], options.atcoPrefix)

\* ------------------------------------------------------------------------
\* C12
\* ------------------------------------------------------------------------

\* The process has exited.
Terminated == pc \in {"done", "failed"}

\* Directory d exists, or a file in it does.
Exists(d) == d \in dirs \/ \E p \in DOMAIN files : p.dir = d

\* C12 (as claimed): once the run has terminated, in success or in failure
\* at whichever step, the download directory no longer exists.  The rm of
\* csvDir is in the finally of a try block that starts after the
\* statements are prepared.
C12_DownloadDirRemovedOnExit ==
    Terminated => ~Exists(DownloadDir)

\* ------------------------------------------------------------------------
\* C13
\* ------------------------------------------------------------------------

\* The run failed after createTempDbPath returned and before the rename.
FailedBeforeRename ==
    /\ pc = "failed"
    /\ err \in {"open", "schema", "prepare", "load", "flush", "flushFinal",
                "optimize", "vacuum", "rmCsv", "cleanStaging", "rmOut"}

\* C13 (as claimed): once a run that failed after the staging directory was
\* created and before the rename has terminated, neither the staging
\* database file nor its directory exists.  The rm of dbDir is the
\* statement after the rename.
C13_StagingDiscardedOnFailure ==
    FailedBeforeRename =>
        /\ tmp.dbPath \notin DOMAIN files
        /\ ~Exists(tmp.dbDir)

\* ------------------------------------------------------------------------
\* C14
\* ------------------------------------------------------------------------

\* The run is at or past the removal of the old destination.
Publishing ==
    \/ pc \in {"rename", "rmStaging", "cleanOut", "report", "done"}
    \/ pc = "failed" /\ err \in {"rename", "rmStaging", "cleanOut"}

\* C14: a run in which a batch transaction failed ends with exit status 1
\* and the destination as it was; the destination changes only once every
\* batch, the final partial one included, has committed and optimize,
\* VACUUM and close are done; and the dataset the rename has just put at
\* the destination holds the rows of all the batches of the run.
C14_PublishOnlyAfterAllBatches ==
    /\ err \in {"flush", "flushFinal"} =>
          /\ DestinationUnchanged
          /\ ~Publishing
          /\ pc \in {"finally", "failed"}
          /\ pc = "failed" => ExitCode = 1
    /\ ~DestinationUnchanged =>
          /\ Publishing
          /\ batch = <<>>
          /\ ~dbOpen
    /\ pc = "rmStaging" =>
          LET kept == Kept
              stops == files[Out].stops
          IN  /\ stats.keptRows = Len(kept)
              /\ stops = FirstOccurrences(kept, 1)
              /\ \A i \in 1..Len(kept) :
                    \E j \in 1..Len(stops) : stops[j].id = kept[i].id

\* A run over a published dataset whose first batch committed and whose
\* final partial batch failed.
C14_Witness ==
    /\ pc = "failed"
    /\ err = "flushFinal"
    /\ HadPrevious
    /\ Len(files[tmp.dbPath].stops) = BATCH_SIZE
    /\ Len(Kept) > BATCH_SIZE

\* ------------------------------------------------------------------------
\* C15
\* ------------------------------------------------------------------------

\* The kept rows already handed to a flush: all but the pending ones.
FlushedOf(kept, pending) == SubSeq(kept, 1, Len(kept) - Len(pending))

\* The pending batch is bounded, a full one is about to be flushed, a
\* partial one is flushed only at end-of-stream, nothing is pending after
\* the load, and the pending rows are the latest kept rows, in source order,
\* behind whole batches already flushed.
BatchBounded ==
    /\ Len(batch) <= BATCH_SIZE
    /\ (Len(batch) = BATCH_SIZE) = (pc = "flush")
    /\ pc = "flushFinal" => Len(batch) > 0
    /\ pc \in {"optimize", "vacuum", "cleanStaging", "rmOut", "rename",
               "rmStaging", "cleanOut", "report", "done"} => batch = <<>>
    /\ pc \in {"load", "flush", "flushFinal"} =>
          LET kept == Kept
              flushed == FlushedOf(kept, batch)
          IN  /\ Len(batch) <= Len(kept)
              /\ batch = SubSeq(kept, Len(flushed) + 1, Len(kept))
              /\ Len(flushed) % BATCH_SIZE = 0
              /\ files[tmp.dbPath].stops = FirstOccurrences(flushed, 1)

\* A kept row joins the end of the pending batch when it is read; the
\* pending rows leave it together, by a flush that hands all of them, in
\* order, to one transaction and leaves the batch empty; the staging table
\* changes during the load by nothing else.
BatchStep ==
    /\ consumed' # consumed =>
          batch' = batch \o mapRow(consumed'[Len(consumed')], options.atcoPrefix)
    /\ (consumed' = consumed /\ batch' # batch) =>
          /\ pc \in {"flush", "flushFinal"}
          /\ batch' = <<>>
          /\ \/ files'[tmp.dbPath] =
                   insertBatch([file |-> files[tmp.dbPath],
                                lastInsertRowid |-> lastInsertRowid],
                               batch, rtreeEnabled).file
             \/ files' = files /\ err' = pc
    /\ (pc \in {"load", "flush", "flushFinal"} /\ files' # files) =>
          pc # "load" /\ batch' # batch

\* C15: during load the pending batch never holds more than BATCH_SIZE
\* rows; it is flushed as one transaction exactly when it reaches that
\* size, the final partial batch at end-of-stream; it is empty after each
\* flush; every kept row is handed to exactly one flush, in source order.
C15_BoundedBatches == [] BatchBounded /\ [][BatchStep]_vars

\* The final partial batch has been flushed after a full one: one row more
\* than a batch holds was kept, none is pending.
C15_Witness ==
    /\ pc = "optimize"
    /\ Len(Kept) = BATCH_SIZE + 1
    /\ batch = <<>>
    /\ Len(files[tmp.dbPath].stops) = BATCH_SIZE

\* ------------------------------------------------------------------------
\* C16
\* ------------------------------------------------------------------------

\* The five assertions, on the file system the validator reads.
FileExists == Out \in DOMAIN files
TableExists == files[Out].kind = "sqlite" /\ files[Out].hasStops
CountPositive == Len(files[Out].stops) > 0
LatInBox ==
    \A j \in 1..Len(files[Out].stops) :
        UK_LAT_MIN <= files[Out].stops[j].lat.v /\ files[Out].stops[j].lat.v <= UK_LAT_MAX
LngInBox ==
    \A j \in 1..Len(files[Out].stops) :
        UK_LNG_MIN <= files[Out].stops[j].lng.v /\ files[Out].stops[j].lng.v <= UK_LNG_MAX
NoWal == WithSuffix(Out, "-wal") \notin DOMAIN files
NoShm == WithSuffix(Out, "-shm") \notin DOMAIN files

\* The message of the first assertion that fails, in the validator's order.
FirstFailure ==
    IF ~FileExists THEN "Missing SQLite file"
    ELSE IF ~TableExists THEN "Missing stops table"
    ELSE IF ~CountPositive THEN "Stops table is empty"
    ELSE IF ~LatInBox THEN "Latitude range out of bounds"
    ELSE IF ~LngInBox THEN "Longitude range out of bounds"
    ELSE IF ~NoWal THEN "Found WAL file"
    ELSE IF ~NoShm THEN "Found SHM file"
    ELSE ""

\* The validator has written the row count and both coordinate ranges.
ReportsCountAndRanges ==
    /\ \E i \in 1..Len(validation.log) : validation.log[i].key = "Stops count"
    /\ ReportsRanges

ReportsNothing ==
    \A i \in 1..Len(validation.log) :
        validation.log[i].key \notin {"Stops count", "Latitude range", "Longitude range"}

Validated == validation.status # "notrun"

\* The validator fails with the message of the first assertion that fails,
\* in the fixed order, and succeeds when none does.
OrderedAssertions ==
    /\ validation.error = FirstFailure
    /\ (validation.status = "failed") = (FirstFailure # "")
    /\ (validation.status = "ok") = (FirstFailure = "")

\* C16 (as claimed): the assertions are evaluated in the fixed order, the
\* first that fails is reported with exit status 1, and the row count and
\* the ranges are reported only when all five assertions hold.
C16_ReportsOnlyOnSuccess ==
    Validated =>
        /\ OrderedAssertions
        /\ ReportsCountAndRanges = (validation.status = "ok")
        /\ validation.status = "failed" => ReportsNothing

\* C16 (amended): the assertions are evaluated in the fixed order and the
\* first that fails is reported with exit status 1; the row count and the
\* ranges are reported when the first four assertions hold, before the
\* sidecars are looked for, and so also by a run that then fails on a
\* sidecar.
C16_ReportsBeforeSidecarCheck ==
    Validated =>
        /\ OrderedAssertions
        /\ ReportsCountAndRanges =
              (FileExists /\ TableExists /\ CountPositive /\ LatInBox /\ LngInBox)
        /\ ~ReportsCountAndRanges => ReportsNothing
        /\ \A c \in ReportedCounts : c = Len(files[Out].stops)
        /\ ReportedRangesInBox

\* A file that passes the first four assertions, with a -shm file beside
\* it: the validator reported count and ranges, then failed.
C16_Witness ==
    /\ validation.status = "failed"
    /\ validation.error = "Found SHM file"
    /\ ReportsCountAndRanges
    /\ Len(files[Out].stops) = 2

\* ------------------------------------------------------------------------
\* C17
\* ------------------------------------------------------------------------

\* C17: after a successful run every row of the published stops table is
\* the row bound from a record of this run's source, every spatial entry is
\* the rectangle of such a row, and a stops_rtree table is there only if
\* this run made it: nothing of the file published before is in the new one.
C17_FullReplacement ==
    pc = "done" =>
        LET kept == Kept
            stops == files[Out].stops
        IN  /\ \A j \in 1..Len(stops) :
                  \E i \in 1..Len(kept) : stops[j] = BoundRow(kept[i])
            /\ \A e \in files[Out].rtree :
                  \E j \in 1..Len(stops) : e = RectangleOf(stops, j)
            /\ files[Out].hasRtree = rtreeEnabled
            /\ ~rtreeEnabled => files[Out].rtree = {}

\* A successful run without spatial index over a published dataset that had
\* one: the new file has rows, and neither the old row nor the old table.
C17_Witness ==
    /\ pc = "done"
    /\ HadPrevious
    /\ initialFiles[Out].hasRtree /\ initialFiles[Out].rtree # {}
    /\ ~files[Out].hasRtree
    /\ Len(files[Out].stops) >= 2
    /\ \A j \in 1..Len(files[Out].stops) : files[Out].stops[j] # OldStop

\* ------------------------------------------------------------------------
\* C18
\* ------------------------------------------------------------------------

\* The run failed in the cleanup that follows the rename.
FailedInCleanup == pc = "failed" /\ err \in {"rmStaging", "cleanOut"}

\* A file the run may leave behind: one in the staging directory, or a
\* sidecar that was beside the destination before the run.
Leftover(p) ==
    \/ p.dir = tmp.dbDir
    \/ /\ p \in {WithSuffix(Out, "-wal"), WithSuffix(Out, "-shm")}
       /\ p \in DOMAIN initialFiles

\* C18: when the removal of the staging directory or of the destination's
\* sidecars fails after the rename, the destination holds the complete new
\* dataset, and every other file there is a leftover temporary file.
C18_CleanupFailureKeepsDataset ==
    FailedInCleanup =>
        /\ Out \in DOMAIN files
        /\ LET kept == Kept
               new == files[Out]
           IN  /\ new.kind = "sqlite" /\ new.hasStops
               /\ new.stops = FirstOccurrences(kept, 1)
               /\ new.hasRtree = rtreeEnabled
               /\ new.rtree = IF rtreeEnabled
                              THEN {RectangleOf(new.stops, j) : j \in 1..Len(new.stops)}
                              ELSE {}
        /\ \A p \in (DOMAIN files) \ {Out} : Leftover(p)
        /\ tmp.dbPath \notin DOMAIN files
        /\ err = "cleanOut" => ~Exists(tmp.dbDir)

\* A run over a published dataset with sidecars whose removal of the
\* staging directory failed after the rename: the new rows are at the
\* destination, the staging directory and the old sidecars are left.
C18_Witness ==
    /\ pc = "failed"
    /\ err = "rmStaging"
    /\ HadPrevious
    /\ Len(files[Out].stops) >= 2
    /\ files[Out] # initialFiles[Out]
    /\ tmp.dbDir \in dirs
    /\ WithSuffix(Out, "-wal") \in DOMAIN files

\* ------------------------------------------------------------------------
\* C19
\* ------------------------------------------------------------------------

\* A -wal or -shm file stands beside database p.
SidecarBeside(fsys, p) ==
    WithSuffix(p, "-wal") \in DOMAIN fsys \/ WithSuffix(p, "-shm") \in DOMAIN fsys

\* C19: once the cleanup of a run is done, and so after every successful
\* run, no -wal or -shm file stands beside the destination, whether or not
\* one stood there before the run; and none stands beside the staging file
\* when it is renamed.
C19_NoSidecarsAfterSuccess ==
    /\ pc \in {"report", "done"} => ~SidecarBeside(files, Out)
    /\ pc \in {"rmOut", "rename"} => ~SidecarBeside(files, tmp.dbPath)
    /\ pc = "done" =>
          \A p \in DOMAIN files : p.dir = DirName(Out) => p = Out

\* A successful run over a destination that had both sidecars beside it.
C19_Witness ==
    /\ pc = "done"
    /\ WithSuffix(Out, "-wal") \in DOMAIN initialFiles
    /\ WithSuffix(Out, "-shm") \in DOMAIN initialFiles
    /\ Out \in DOMAIN files
    /\ files[Out] # initialFiles[Out]

\* ------------------------------------------------------------------------
\* C20
\* ------------------------------------------------------------------------

\* The record is malformed: its id does not resolve, or is filtered out, or
\* a coordinate does not parse to a finite number.
Malformed(row) ==
    \/ pick(row, IdKeys) = Undefined
    \/ options.atcoPrefix # Null /\ ~StartsWith(pick(row, IdKeys), options.atcoPrefix)
    \/ ~ParsesFinite(row, LatKeys)
    \/ ~ParsesFinite(row, LngKeys)

\* Rows seen = rows kept + rows skipped = records read.
CountersAddUp ==
    /\ stats.totalRows = Len(consumed)
    /\ stats.totalRows = stats.keptRows + stats.skippedRows
    /\ stats.keptRows >= 0 /\ stats.skippedRows >= 0

\* A record read increments rows seen and exactly one of kept and skipped,
\* by one; a malformed one increments skipped, adds nothing to the batch
\* and the load goes on; the counters change at no other step.
CounterStep ==
    /\ consumed' # consumed =>
          LET raw == consumed'[Len(consumed')]
          IN  /\ Len(consumed') = Len(consumed) + 1
              /\ stats'.totalRows = stats.totalRows + 1
              /\ \/ /\ stats'.keptRows = stats.keptRows + 1
                    /\ stats'.skippedRows = stats.skippedRows
                 \/ /\ stats'.keptRows = stats.keptRows
                    /\ stats'.skippedRows = stats.skippedRows + 1
              /\ (stats'.skippedRows = stats.skippedRows + 1) = Malformed(raw)
              /\ Malformed(raw) =>
                    /\ pc' = "load" /\ err' = ""
                    /\ batch' = batch /\ files' = files /\ stats' # stats
    /\ consumed' = consumed => stats' = stats

\* C20: after each source row, rows seen = rows kept + rows skipped, each
\* row having incremented exactly one of kept and skipped once; a malformed
\* row increments only skipped and does not abort the run.
C20_CountersPartitionRows == [] CountersAddUp /\ [][CounterStep]_vars

\* A run that read a row without id, a row with an unparsable latitude and
\* a row of another prefix, skipped the three and ended in success.
C20_Witness ==
    /\ pc = "done"
    /\ stats.totalRows = 3 /\ stats.skippedRows = 3 /\ stats.keptRows = 0
    /\ \E i \in 1..3 : pick(consumed[i], IdKeys) = Undefined
    /\ \E i \in 1..3 : /\ pick(consumed[i], IdKeys) # Undefined
                       /\ ~ParsesFinite(consumed[i], LatKeys)
    /\ \E i \in 1..3 : /\ Eligible(consumed[i])
                       /\ ~StartsWith(pick(consumed[i], IdKeys), options.atcoPrefix)

\* ------------------------------------------------------------------------
\* C21
\* ------------------------------------------------------------------------

\* The latitudes and the longitudes of the rows of a stops table.
LatsOf(stops) == {stops[j].lat.v : j \in 1..Len(stops)}
LngsOf(stops) == {stops[j].lng.v : j \in 1..Len(stops)}

\* The range lines the builder has written, as <<min, max>> pairs.
BuilderRanges(key) ==
    {log[i].val : i \in {n \in 1..Len(log) : log[n].lvl = "info" /\ log[n].key = key}}

\* C21: after a successful run the box of the load phase, the running
\* minimum and maximum of lat and lng over the kept rows, encloses the
\* minimum and maximum of the rows of the published stops table, and equals
\* them when no two kept rows share an id; the box is reported, as it
\* stands, exactly when at least one row was kept.
C21_ReportedBoxEnclosesTable ==
    pc = "done" =>
        LET stops == files[Out].stops
            kept == Kept
        IN  /\ (stats.keptRows > 0) = (BuilderRanges("Latitude range") # {})
            /\ (stats.keptRows > 0) = (BuilderRanges("Longitude range") # {})
            /\ stats.keptRows > 0 =>
                  /\ Len(stops) > 0
                  /\ IsFinite(stats.minLat) /\ IsFinite(stats.maxLat)
                  /\ IsFinite(stats.minLng) /\ IsFinite(stats.maxLng)
                  /\ BuilderRanges("Latitude range") = {<<stats.minLat.v, stats.maxLat.v>>}
                  /\ BuilderRanges("Longitude range") = {<<stats.minLng.v, stats.maxLng.v>>}
                  /\ stats.minLat.v <= SetMin(LatsOf(stops))
                  /\ SetMax(LatsOf(stops)) <= stats.maxLat.v
                  /\ stats.minLng.v <= SetMin(LngsOf(stops))
                  /\ SetMax(LngsOf(stops)) <= stats.maxLng.v
                  /\ NoRepeatedIdIn(kept) =>
                        /\ stats.minLat.v = SetMin(LatsOf(stops))
                        /\ stats.maxLat.v = SetMax(LatsOf(stops))
                        /\ stats.minLng.v = SetMin(LngsOf(stops))
                        /\ stats.maxLng.v = SetMax(LngsOf(stops))

\* A successful run that kept an id a second time at a latitude north of
\* every published row: the reported box is strictly larger than the
\* table's.
C21_Witness ==
    /\ pc = "done"
    /\ Len(files[Out].stops) >= 2
    /\ stats.keptRows > Len(files[Out].stops)
    /\ stats.maxLat.v > SetMax(LatsOf(files[Out].stops))
    /\ BuilderRanges("Latitude range") # {}

\* ------------------------------------------------------------------------
\* C22
\* ------------------------------------------------------------------------

\* The statements after the load, from PRAGMA optimize to the report.
AfterLoad ==
    {"optimize", "vacuum", "finally", "cleanStaging", "rmOut", "rename",
     "rmStaging", "cleanOut", "report"}

\* At every statement from the end of the stream on, with no exception
\* pending, the step to the next statement can be taken: nothing on the
\* way to the report tests the number of kept rows.
CanProceed ==
    /\ pc = "load" => ENABLED (EndOfStream /\ pc' \in {"flushFinal", "optimize"})
    /\ pc = "flushFinal" => ENABLED (FlushBatch /\ pc' = "optimize")
    /\ pc = "optimize" => ENABLED (Optimize /\ pc' = "vacuum")
    /\ pc = "vacuum" => ENABLED (Vacuum /\ pc' = "finally" /\ err' = "")
    /\ (pc = "finally" /\ err = "") => ENABLED (Finally /\ pc' = "cleanStaging")
    /\ pc = "cleanStaging" => ENABLED (CleanStagingSidecars /\ pc' = "rmOut")
    /\ pc = "rmOut" => ENABLED (RemoveDestination /\ pc' = "rename")
    /\ pc = "rename" => ENABLED (RenameStaging /\ pc' = "rmStaging")
    /\ pc = "rmStaging" => ENABLED (RemoveStagingDir /\ pc' = "cleanOut")
    /\ pc = "cleanOut" => ENABLED (CleanDestinationSidecars /\ pc' = "report")
    /\ pc = "report" => ENABLED (Report /\ pc' = "done")

\* C22: a run whose load phase has finished without error goes on to
\* publish whatever the number of kept rows, each statement leading to the
\* next unless it raises an error itself; with zero rows kept no batch is
\* flushed, and the run that reaches its end has put a dataset with an
\* empty stops table in place of the one published before, with exit
\* status 0.
C22_PublishesWhateverKept ==
    /\ CanProceed
    /\ pc \in {"flush", "flushFinal"} => stats.keptRows > 0
    /\ (stats.keptRows = 0 /\ HasBuilt) =>
          /\ Built.stops = <<>> /\ Built.rtree = {}
          /\ lastInsertRowid = 0
    /\ pc = "done" =>
          /\ ExitCode = 0
          /\ Out \in DOMAIN files
          /\ files[Out].hasStops
          /\ tmp.dbPath \notin DOMAIN files
          /\ Len(files[Out].stops) <= stats.keptRows
          /\ (stats.keptRows > 0) = (Len(files[Out].stops) > 0)

\* A run over a published, non-empty dataset that read rows, kept none and
\* ended in success: the destination now has an empty stops table.
C22_Witness ==
    /\ pc = "done"
    /\ HadPrevious
    /\ Len(initialFiles[Out].stops) > 0
    /\ stats.totalRows = MaxRows
    /\ stats.keptRows = 0
    /\ files[Out].stops = <<>>
    /\ ExitCode = 0

=============================================================================
